---- MODULE Spec2Model ----
(***************************************************************************)
(* RE:ASoN roster pipeline: scoring (calculateRiskScore,                   *)
(* calculateTotalPoints), record construction in parseManageBacCSV, the    *)
(* roster merge of handleFileUpload and the weight-change re-scoring       *)
(* effect of App.                                                          *)
(*                                                                         *)
(* Numbers.  Weights are JavaScript numbers set by sliders in steps of     *)
(* 0.05; they are kept here as integer hundredths (0.25 is 25), so the     *)
(* real-valued score of calculateRiskScore is kept in hundredths and       *)
(* Math.round(x) is floor(x + 0.5).  Dates are the ISO day strings of the  *)
(* source written as integers YYYYMMDD, which order the same way.          *)
(***************************************************************************)
EXTENDS Integers, Sequences, FiniteSets, TLC

VARIABLES
    students,        \* App state: the roster (useState MOCK_STUDENTS)
    weights,         \* App state: the active RiskWeights
    effectPending,   \* the useEffect([weights]) pass is scheduled, not yet run
    reads,           \* FileReader loads in flight: the rows and the weights
                     \* the onload closure captured when the file was chosen
    now,             \* the clock's current day
    uploads,         \* number of files chosen so far
    lastOp,          \* the last handler that wrote (or declined to write) the roster
    mounted,         \* the effect has run at least once (the mount pass)
    other,           \* a second run of App fed the same batches: its students,
                     \* weights, effectPending and mounted
    fnRow,           \* scoring functions applied on their own: decoded row
    fnWeights,       \*   the weights they are called with
    fnDone,          \*   whether they have been applied
    fnOut,           \*   the record built and its risk score
    rowText,         \* parseCSVRow applied on its own: the line it is given
    rowDone,         \*   whether it has returned
    rowOut,          \*   the fields it returned
    ingText,         \* reader.onload followed from the file text: the text read
    ingDone,         \*   whether onload has run
    ingOut,          \*   the records parseManageBacCSV returned to it
    tokText,         \* the numeric columns decoded on their own: the token
    tokDone,         \*   whether it has been decoded
    tokOut,          \*   cleanAttendance and cleanLessons of the token
    selectedStudent  \* App state: the record the detail panel shows, or null

vars == <<students, weights, effectPending, reads, now, uploads, lastOp, mounted, other,
          fnRow, fnWeights, fnDone, fnOut, rowText, rowDone, rowOut,
          ingText, ingDone, ingOut, tokText, tokDone, tokOut, selectedStudent>>

appVars == <<students, weights, effectPending, reads, now, uploads, lastOp, mounted,
             selectedStudent>>
fnVars == <<fnRow, fnWeights, fnDone, fnOut>>
rowVars == <<rowText, rowDone, rowOut>>
ingVars == <<ingText, ingDone, ingOut>>
tokVars == <<tokText, tokDone, tokOut>>
pureVars == <<fnVars, rowVars, ingVars, tokVars>>

----------------------------------------------------------------------------
(* Bounds of the model *)

MaxUploads == 2
MaxRepeat == 8
MaxDays == 1
StartDate == 20240601

(* Program constants *)

HistoryWindow == 10
MaxTotalPoints == 45
MaxRiskScore == 100
AttendanceGoal == 95
DefaultAttendance == 100

----------------------------------------------------------------------------
(* types.ts / constants.ts *)

DP1 == "DP1 (Y11)"
DP2 == "DP2 (Y12)"

DEFAULT_WEIGHTS ==
    [attendanceWeight |-> 25, lowGradeWeight |-> 35, coreRiskWeight |-> 15,
     trendWeight |-> 10, iaRiskWeight |-> 10, missingAssignmentWeight |-> 5]

WeightKeys ==
    {"attendanceWeight", "lowGradeWeight", "coreRiskWeight", "trendWeight",
     "iaRiskWeight", "missingAssignmentWeight"}

Asg(n, s, m, t, st) == [name |-> n, score |-> s, maxScore |-> m, type |-> t, status |-> st]

Grade(sub, lvl, cm, pg, tr, as) ==
    [subject |-> sub, level |-> lvl, currentMark |-> cm, predictedGrade |-> pg,
     trend |-> tr, assignments |-> as]

Core(e, t, c, p) == [ee |-> e, tok |-> t, cas |-> c, points |-> p]

Hist(d, s) == [date |-> d, score |-> s]

Mock(i, n, yg, att, lm, gr, co, rs, tp, hist) ==
    [id |-> i, name |-> n, yearGroup |-> yg, attendance |-> att, lessonsMissed |-> lm,
     grades |-> gr, core |-> co, riskScore |-> rs, totalPoints |-> tp,
     lastUpdated |-> 20240501, historicalRiskScores |-> hist]

MOCK_STUDENTS == <<
    Mock("2024001", "Alex Johnson", DP2, 88, 24,
         <<Grade("Math AA", "HL", 3, 4, "down",
                 <<Asg("Calculus Exploration IA", 8, 20, "IA", "Submitted"),
                   Asg("Statistics Quiz", 0, 20, "Summative", "Missing")>>),
           Grade("Physics", "HL", 4, 4, "stable",
                 <<Asg("Internal Assessment Draft", 12, 24, "IA", "Submitted")>>)>>,
         Core("At Risk", "In Progress", "Behind", 1), 72, 24,
         <<Hist(20240301, 45), Hist(20240401, 60), Hist(20240501, 72)>>),
    Mock("2024002", "Sarah Chen", DP2, 98, 4,
         <<Grade("English L&L", "HL", 7, 7, "stable", <<>>),
           Grade("Economics", "HL", 6, 7, "up", <<>>)>>,
         Core("Submitted", "Submitted", "Complete", 3), 5, 42,
         <<Hist(20240301, 5), Hist(20240401, 4), Hist(20240501, 5)>>),
    Mock("2025003", "Marcus Aurelius", DP1, 75, 52,
         <<Grade("Chemistry", "HL", 2, 3, "down",
                 <<Asg("Lab Report 1", 0, 20, "Summative", "Missing")>>),
           Grade("Biology", "SL", 3, 4, "stable", <<>>)>>,
         Core("Not Started", "At Risk", "Behind", 0), 92, 18,
         <<Hist(20240301, 80), Hist(20240401, 88), Hist(20240501, 92)>>),
    Mock("2024004", "Elena Rodriguez", DP2, 91, 18,
         <<Grade("History", "HL", 4, 5, "up", <<>>),
           Grade("Spanish B", "SL", 5, 6, "stable", <<>>)>>,
         Core("In Progress", "In Progress", "On Track", 2), 28, 31,
         <<Hist(20240401, 32), Hist(20240501, 28)>>),
    Mock("2025005", "Toby Wright", DP1, 84, 32,
         <<Grade("Math AI", "SL", 3, 4, "down",
                 <<Asg("Unit Test 1", 40, 100, "Summative", "Submitted")>>)>>,
         Core("Not Started", "In Progress", "On Track", 1), 55, 22,
         <<Hist(20240501, 55)>>),
    Mock("2024006", "Aisha Khan", DP2, 99, 1,
         <<Grade("Computer Science", "HL", 7, 7, "stable", <<>>),
           Grade("Physics", "HL", 6, 7, "up", <<>>)>>,
         Core("Submitted", "Submitted", "Complete", 3), 2, 44,
         <<Hist(20240501, 2)>>),
    Mock("2025007", "Liam O'Connor", DP1, 89, 22,
         <<Grade("Geography", "HL", 4, 5, "stable", <<>>),
           Grade("Business", "HL", 4, 4, "down",
                 <<Asg("Marketing IA", 5, 25, "IA", "Submitted")>>)>>,
         Core("In Progress", "In Progress", "Behind", 1), 42, 26,
         <<Hist(20240501, 42)>>),
    Mock("2024008", "Chloe Dubois", DP2, 82, 38,
         <<Grade("Visual Arts", "HL", 5, 5, "stable", <<>>),
           Grade("French A", "HL", 3, 4, "down",
                 <<Asg("IOA Prep", 0, 10, "Summative", "Missing")>>)>>,
         Core("At Risk", "At Risk", "Behind", 0), 78, 21,
         <<Hist(20240501, 78)>>),
    Mock("2025009", "Jin Soo Park", DP1, 95, 8,
         <<Grade("Math AA", "HL", 6, 6, "up", <<>>)>>,
         Core("Not Started", "In Progress", "On Track", 2), 12, 34,
         <<Hist(20240501, 12)>>),
    Mock("2024010", "Sofia Rossi", DP2, 93, 14,
         <<Grade("History", "HL", 5, 6, "stable", <<>>),
           Grade("Italian A", "SL", 6, 6, "stable", <<>>)>>,
         Core("Submitted", "Submitted", "Complete", 3), 10, 38,
         <<Hist(20240501, 10)>>),
    Mock("2025011", "Noah Smith", DP1, 68, 64,
         <<Grade("Global Politics", "SL", 3, 3, "down",
                 <<Asg("Case Study", 0, 20, "Summative", "Missing")>>)>>,
         Core("Not Started", "At Risk", "Behind", 0), 98, 14,
         <<Hist(20240501, 98)>>),
    Mock("2024012", "Emma Wilson", DP2, 95, 10,
         <<Grade("Psychology", "HL", 6, 7, "up", <<>>),
           Grade("English B", "HL", 5, 5, "stable", <<>>)>>,
         Core("Submitted", "In Progress", "On Track", 2), 15, 36,
         <<Hist(20240501, 15)>>)
>>

----------------------------------------------------------------------------
(* dataService: the scoring functions *)

RECURSIVE SumSeq(_)
SumSeq(s) == IF s = <<>> THEN 0 ELSE Head(s) + SumSeq(Tail(s))

Min(a, b) == IF a <= b THEN a ELSE b
Max(a, b) == IF a >= b THEN a ELSE b

\* Math.round of a value kept in hundredths: floor(x + 0.5)
MathRound(h) == (h + 50) \div 100

\* a.type === 'IA' && a.maxScore > 0 && (a.score / a.maxScore) < 0.4
LowIA(a) == a.type = "IA" /\ a.maxScore > 0 /\ 10 * a.score < 4 * a.maxScore

\* NaN, the value Number() gives a mark that is no number
NotANumber == -1000000

\* the contributions one subject adds to score inside grades.forEach (hundredths)
GradeRisk(g, w) ==
    (IF g.currentMark /= NotANumber /\ g.currentMark < 4 /\ g.currentMark > 0
        THEN (4 - g.currentMark) * 15 * w.lowGradeWeight ELSE 0)
    + (IF g.trend = "down" THEN 10 * w.trendWeight ELSE 0)
    + SumSeq([k \in 1..Len(g.assignments) |->
                IF LowIA(g.assignments[k]) THEN 20 * w.iaRiskWeight ELSE 0])

\* missingCount contributed by one subject
GradeMissing(g) ==
    SumSeq([k \in 1..Len(g.assignments) |->
                IF g.assignments[k].status = "Missing" THEN 1 ELSE 0])

\* the real-valued score before Math.round, in hundredths
RawRisk(s, w) ==
    LET attendanceVal == IF s.attendance = 0 THEN DefaultAttendance ELSE s.attendance
        attendanceDeficit == Max(0, AttendanceGoal - attendanceVal)
        missingCount == SumSeq([i \in 1..Len(s.grades) |-> GradeMissing(s.grades[i])])
    IN  attendanceDeficit * w.attendanceWeight * 5
        + SumSeq([i \in 1..Len(s.grades) |-> GradeRisk(s.grades[i], w)])
        + missingCount * 12 * w.missingAssignmentWeight
        + (IF s.core.ee = "At Risk" THEN 35 * w.coreRiskWeight ELSE 0)
        + (IF s.core.tok = "At Risk" THEN 30 * w.coreRiskWeight ELSE 0)
        + (IF s.core.cas = "Behind" THEN 25 * w.coreRiskWeight ELSE 0)

calculateRiskScore(s, w) == Min(MaxRiskScore, MathRound(RawRisk(s, w)))

\* slip: a mark out of range is clamped into 1..7
MarkPointsClamped(currentMark) ==
    IF currentMark = NotANumber THEN 0 ELSE Max(1, Min(7, currentMark))

\* mark = Number(g.currentMark) || 0;  mark >= 1 && mark <= 7 ? mark : 0
MarkPoints(currentMark) ==
    LET mark == IF currentMark = NotANumber THEN 0 ELSE currentMark
    IN  IF mark >= 1 /\ mark <= 7 THEN mark ELSE 0

calculateTotalPoints(s) ==
    LET summativeAcademicPoints ==
            SumSeq([i \in 1..Len(s.grades) |-> MarkPoints(s.grades[i].currentMark)])
        corePoints == s.core.points
    IN  Min(MaxTotalPoints, summativeAcademicPoints + corePoints)

----------------------------------------------------------------------------
(* dataService: parseCSVRow.  A line is a sequence of characters, each a    *)
(* string of length one; a field is the sequence of characters it holds.    *)

Quote == "\""
Comma == ","
Space == " "

Newline == "\n"
CarriageReturn == "\r"

\* what String.prototype.trim removes
Whitespace == {Space, "\t", CarriageReturn, Newline}

RECURSIVE trimStart(_)
trimStart(s) ==
    IF s /= <<>> /\ Head(s) \in Whitespace THEN trimStart(Tail(s)) ELSE s

RECURSIVE trimEnd(_)
trimEnd(s) ==
    IF s /= <<>> /\ s[Len(s)] \in Whitespace THEN trimEnd(SubSeq(s, 1, Len(s) - 1)) ELSE s

\* slip: trimStart() in place of trim()
trimLeading(s) == trimStart(s)

\* current.trim()
trim(s) == trimEnd(trimStart(s))

\* slip: a doubled quote is never taken as an escape
IsEscapedQuoteNever(row, i, inQuotes) == FALSE

\* inQuotes && row[i + 1] === '"'   (row[i + 1] is undefined past the end)
IsEscapedQuote(row, i, inQuotes) ==
    inQuotes /\ i + 1 <= Len(row) /\ row[i + 1] = Quote

\* slip: every comma ends the field
IsDelimiterAlways(char, inQuotes) == char = Comma

\* char === ',' && !inQuotes
IsDelimiter(char, inQuotes) == char = Comma /\ ~inQuotes

\* the loop variables before the first iteration
ScanStart == [i |-> 1, current |-> <<>>, inQuotes |-> FALSE, result |-> <<>>]

\* one iteration of the for loop, i++ included
ScanStep(row, st) ==
    LET char == row[st.i]
    IN  IF char = Quote
           THEN IF IsEscapedQuote(row, st.i, st.inQuotes)
                   THEN [st EXCEPT !.current = Append(@, Quote), !.i = @ + 2]
                   ELSE [st EXCEPT !.inQuotes = ~@, !.i = @ + 1]
           ELSE IF IsDelimiter(char, st.inQuotes)
                   THEN [st EXCEPT !.result = Append(@, trim(st.current)),
                                   !.current = <<>>, !.i = @ + 1]
                   ELSE [st EXCEPT !.current = Append(@, char), !.i = @ + 1]

\* the loop variables at the head of every iteration, the loop's exit included
RECURSIVE ScanTrace(_, _)
ScanTrace(row, st) ==
    IF st.i > Len(row) THEN <<st>> ELSE <<st>> \o ScanTrace(row, ScanStep(row, st))

\* the loop run to its exit
ScanRow(row) == LET tr == ScanTrace(row, ScanStart) IN tr[Len(tr)]

\* slip: a field whose quote was never closed is not returned
parseCSVRowStrict(row) ==
    LET st == ScanRow(row)
    IN  IF st.inQuotes THEN st.result ELSE Append(st.result, trim(st.current))

\* result.push(current.trim()); return result
parseCSVRow(row) ==
    LET st == ScanRow(row) IN Append(st.result, trim(st.current))

----------------------------------------------------------------------------
(* dataService: parseManageBacCSV, from the decoded columns of each line on. *)
(* A line is the record of what its columns decode to: ncols the number of  *)
(* fields parseCSVRow returned, id/name/yearGroup the raw tokens ("" when   *)
(* absent), attendance and lessonsMissed the cleaned numbers, grades and    *)
(* core the decoded embedded columns.  A file is the sequence of its        *)
(* non-blank lines; the first one is the header.                            *)

LaterCohortTokens == {"DP2", "DP2 (Y12)", "Y12", "12"}

\* lower.includes('dp2') || lower.includes('y12') || lower.includes('12')
normalizeYearGroup(val) == IF val \in LaterCohortTokens THEN DP2 ELSE DP1

\* the Student literal of one line, then totalPoints and riskScore
\* slip: the record is scored with the default weights as it is built
BuildStudentScored(row, rnd, date) ==
    LET student ==
            [id |-> IF row.id = "" THEN rnd ELSE row.id,
             name |-> IF row.name = "" THEN "Unknown Student" ELSE row.name,
             yearGroup |-> normalizeYearGroup(IF row.yearGroup = "" THEN "DP1" ELSE row.yearGroup),
             attendance |-> row.attendance,
             lessonsMissed |-> row.lessonsMissed,
             grades |-> row.grades,
             core |-> row.core,
             riskScore |-> 0,
             totalPoints |-> 0,
             lastUpdated |-> date,
             historicalRiskScores |-> <<Hist(date, 0)>>]
    IN  [student EXCEPT !.totalPoints = calculateTotalPoints(student),
                        !.riskScore = calculateRiskScore(student, DEFAULT_WEIGHTS)]

BuildStudent(row, rnd, date) ==
    LET student ==
            [id |-> IF row.id = "" THEN rnd ELSE row.id,
             name |-> IF row.name = "" THEN "Unknown Student" ELSE row.name,
             yearGroup |-> normalizeYearGroup(IF row.yearGroup = "" THEN "DP1" ELSE row.yearGroup),
             attendance |-> row.attendance,
             lessonsMissed |-> row.lessonsMissed,
             grades |-> row.grades,
             core |-> row.core,
             riskScore |-> 0,
             totalPoints |-> 0,
             lastUpdated |-> date,
             historicalRiskScores |-> <<Hist(date, 0)>>]
    IN  [student EXCEPT !.totalPoints = calculateTotalPoints(student)]

\* JSON null as an element of a decoded array
JsonNull == [null |-> TRUE]

\* calculateTotalPoints reads g.currentMark of every element of grades: a null
\* element raises TypeError, which the catch around the row swallows
RowThrows(row) == \E k \in 1..Len(row.grades) : row.grades[k] = JsonNull

\* indices of the data lines that yield a record: cols.length >= 2 and no
\* exception before students.push
RECURSIVE AcceptedFrom(_, _)
AcceptedFrom(file, i) ==
    IF i > Len(file) THEN <<>>
    ELSE (IF file[i].ncols < 2 \/ RowThrows(file[i]) THEN <<>> ELSE <<i>>)
            \o AcceptedFrom(file, i + 1)

\* the lines whose id column is empty: each gets a synthesized identity
NeedsId(file) == {i \in 2..Len(file) : file[i].ncols >= 2 /\ file[i].id = ""}

\* slip: the loop starts at the header line
parseManageBacCSVWithHeader(file, rnd, date) ==
    LET acc == AcceptedFrom(file, 1)
    IN  [k \in 1..Len(acc) |-> BuildStudent(file[acc[k]], "", date)]

\* rnd[i] is the identity Math.random synthesizes for line i
parseManageBacCSV(file, rnd, date) ==
    IF Len(file) < 2 THEN <<>>
    ELSE LET acc == AcceptedFrom(file, 2)
         IN  [k \in 1..Len(acc) |->
                 BuildStudent(file[acc[k]],
                              IF acc[k] \in DOMAIN rnd THEN rnd[acc[k]] ELSE "",
                              date)]

----------------------------------------------------------------------------
(* App: the re-scoring effect and the merge updater of handleFileUpload *)

\* slip: the pass also logs the new score in the history
RescoreEntryLogging(s, w) ==
    [s EXCEPT !.riskScore = calculateRiskScore(s, w),
              !.totalPoints = calculateTotalPoints(s),
              !.historicalRiskScores = Append(@, Hist(s.lastUpdated, calculateRiskScore(s, w)))]

\* slip: totalPoints takes the weighted score
RescoreEntryWeighted(s, w) ==
    [s EXCEPT !.riskScore = calculateRiskScore(s, w),
              !.totalPoints = calculateRiskScore(s, w)]

\* prev.map(s => ({...s, riskScore: ..., totalPoints: ...}))
RescoreEntry(s, w) ==
    [s EXCEPT !.riskScore = calculateRiskScore(s, w),
              !.totalPoints = calculateTotalPoints(s)]

Rescore(prev, w) == [i \in 1..Len(prev) |-> RescoreEntry(prev[i], w)]

\* slip: s.id === Number(newS.id), a string never equals a number
findIndexStrict(merged, newS) == 0

\* merged.findIndex(s => String(s.id) === String(newS.id)); 0 stands for -1
findIndex(merged, newS) ==
    IF \E i \in 1..Len(merged) : merged[i].id = newS.id
       THEN CHOOSE i \in 1..Len(merged) :
                /\ merged[i].id = newS.id
                /\ \A j \in 1..(i - 1) : merged[j].id /= newS.id
       ELSE 0

RemoveAt(seq, i) == SubSeq(seq, 1, i - 1) \o SubSeq(seq, i + 1, Len(seq))

\* slip: slice(0, n) keeps the oldest entries
SliceFirst(seq, n) == IF Len(seq) <= n THEN seq ELSE SubSeq(seq, 1, n)

\* Array.prototype.slice(-n)
SliceLast(seq, n) ==
    IF Len(seq) <= n THEN seq ELSE SubSeq(seq, Len(seq) - n + 1, Len(seq))

\* { ...newS, riskScore, totalPoints }
WithStats(newS, w) ==
    [newS EXCEPT !.riskScore = calculateRiskScore(newS, w),
                 !.totalPoints = calculateTotalPoints(newS)]

\* slip: the new history entry is put in front of the history
MergeOnePrepend(merged, newS, w, date) ==
    LET index == findIndex(merged, newS)
        withStats == WithStats(newS, w)
    IN  IF index /= 0
           THEN [merged EXCEPT ![index] =
                    [withStats EXCEPT !.historicalRiskScores =
                        SliceLast(<<Hist(date, withStats.riskScore)>>
                                      \o merged[index].historicalRiskScores,
                                  HistoryWindow)]]
           ELSE Append(merged, withStats)

\* slip: the entry found is taken out and the new one pushed at the end
MergeOneMoveToEnd(merged, newS, w, date) ==
    LET index == findIndex(merged, newS)
        withStats == WithStats(newS, w)
    IN  IF index /= 0
           THEN Append(RemoveAt(merged, index),
                    [withStats EXCEPT !.historicalRiskScores =
                        SliceLast(Append(merged[index].historicalRiskScores,
                                         Hist(date, withStats.riskScore)),
                                  HistoryWindow)])
           ELSE Append(merged, withStats)

\* the body of parsedStudents.forEach
MergeOne(merged, newS, w, date) ==
    LET index == findIndex(merged, newS)
        withStats == WithStats(newS, w)
    IN  IF index /= 0
           THEN [merged EXCEPT ![index] =
                    [withStats EXCEPT !.historicalRiskScores =
                        SliceLast(Append(merged[index].historicalRiskScores,
                                         Hist(date, withStats.riskScore)),
                                  HistoryWindow)]]
           ELSE Append(merged, withStats)

RECURSIVE MergeFrom(_, _, _, _, _)
MergeFrom(merged, parsed, k, w, date) ==
    IF k > Len(parsed) THEN merged
    ELSE MergeFrom(MergeOne(merged, parsed[k], w, date), parsed, k + 1, w, date)

\* slip: the updater starts from an empty list instead of [...prev]
MergeReplace(prev, parsed, w, date) == MergeFrom(<<>>, parsed, 1, w, date)

\* slip: the batch is walked from its last record to its first
MergeReversed(prev, parsed, w, date) ==
    MergeFrom(prev, [k \in 1..Len(parsed) |-> parsed[Len(parsed) + 1 - k]], 1, w, date)

\* slip: the loop ends at the first record whose identity is new (break for
\* the fall through to the next record)
MergeBreaking(prev, parsed, w, date) ==
    LET new == {k \in 1..Len(parsed) : findIndex(prev, parsed[k]) = 0}
        stop == IF new = {} THEN Len(parsed)
                ELSE CHOOSE k \in new : \A m \in new : k <= m
    IN  MergeFrom(prev, SubSeq(parsed, 1, stop), 1, w, date)

\* slip: the merge starts from the roster the handler closed over at mount,
\* setStudents([...students merged]), not from prev
MergeStale(prev, parsed, w, date) == MergeFrom(MOCK_STUDENTS, parsed, 1, w, date)

\* the setStudents updater: merged = [...prev]; forEach; return merged
Merge(prev, parsed, w, date) == MergeFrom(prev, parsed, 1, w, date)

----------------------------------------------------------------------------
(* Inputs *)

Line(n, i, nm, yg, att, lm, gr, co) ==
    [ncols |-> n, id |-> i, name |-> nm, yearGroup |-> yg, attendance |-> att,
     lessonsMissed |-> lm, grades |-> gr, core |-> co]

BaselineCore == Core("Not Started", "Not Started", "On Track", 0)

HeaderLine == Line(7, "id", "name", "yearGroup", DefaultAttendance, 0, <<>>, BaselineCore)

\* a line of one field only: skipped by cols.length < 2
ShortLine == Line(1, "garbage", "", "", DefaultAttendance, 0, <<>>, BaselineCore)

\* the scenario row: attendance 88, one subject at mark 3 trending down
RiskyLine(i, nm) ==
    Line(7, i, nm, "DP2 (Y12)", 88, 24,
         <<Grade("Math", "HL", 3, 4, "down", <<>>)>>,
         Core("At Risk", "In Progress", "Behind", 1))

\* a row with empty embedded columns
CleanLine(i, nm) == Line(5, i, nm, "", DefaultAttendance, 0, <<>>, BaselineCore)

\* what Math.random may synthesize: a fresh identity, or one already taken
RandomIds == {"S-k3x9q", "S1"}

\* one record, its identity in the sample roster
ExistingFile == <<HeaderLine, RiskyLine("2024001", "Alex Johnson")>>

\* one record, its identity new
NewFile == <<HeaderLine, RiskyLine("S1", "Jane Doe")>>

\* the same new identity twice, with different contents
DuplicateFile == <<HeaderLine, RiskyLine("S1", "Jane Doe"), CleanLine("S1", "")>>

\* two identities, in both orders
MixedFile == <<HeaderLine, CleanLine("S1", "J. Doe"), RiskyLine("2024001", "Alex Johnson")>>
MixedFileReversed == <<HeaderLine, RiskyLine("2024001", "Alex Johnson"), CleanLine("S1", "J. Doe")>>

\* one identity repeated MaxRepeat times in a single file
RepeatFile == <<HeaderLine>> \o [k \in 1..MaxRepeat |-> RiskyLine("2024001", "Alex Johnson")]

\* a line that is skipped, followed by a line that is kept
ShortFile == <<HeaderLine, ShortLine, CleanLine("2024001", "Alex J.")>>

\* two lines without an id column value
NoIdFile == <<HeaderLine, CleanLine("", "No Id"), RiskyLine("", "")>>

\* the files the coordinator may choose: empty, header only, and the above
Files ==
    {<<>>, <<HeaderLine>>, ExistingFile, NewFile, DuplicateFile, MixedFile,
     MixedFileReversed, RepeatFile, ShortFile, NoIdFile}

\* slider positions the coordinator moves a weight to (hundredths)
SliderChanges == {<<"attendanceWeight", 100>>, <<"attendanceWeight", 25>>}

----------------------------------------------------------------------------
(* dataService: parseManageBacCSV, from the file text to the decoded        *)
(* columns.  The text is a sequence of characters; a run of characters that *)
(* holds no comma, quote or line break and neither starts nor ends with     *)
(* whitespace may be written as one element ("Jane", "[{"), since every     *)
(* step below treats such a run alike.  The characters of the attendance    *)
(* and lessonsMissed columns are always written one by one.                 *)

\* the position of the k-th line feed of text
NthNewline(text, k) ==
    CHOOSE p \in 1..Len(text) :
        text[p] = Newline /\ Cardinality({q \in 1..p : text[q] = Newline}) = k

\* fileContent.split(/\r?\n/): the pieces between line feeds, without the
\* carriage return that precedes a line feed
SplitLines(text) ==
    LET n == Cardinality({q \in 1..Len(text) : text[q] = Newline})
    IN  [k \in 1..(n + 1) |->
            LET start == IF k = 1 THEN 1 ELSE NthNewline(text, k - 1) + 1
                end == IF k = n + 1 THEN Len(text) ELSE NthNewline(text, k) - 1
                piece == SubSeq(text, start, end)
            IN  IF k <= n /\ piece /= <<>> /\ piece[Len(piece)] = CarriageReturn
                   THEN SubSeq(piece, 1, Len(piece) - 1) ELSE piece]

\* .filter(row => row.trim().length > 0)
NonBlankRows(text) == SelectSeq(SplitLines(text), LAMBDA row : trim(row) /= <<>>)

\* the text of a field as a string
RECURSIVE TextOf(_)
TextOf(cell) == IF cell = <<>> THEN "" ELSE Head(cell) \o TextOf(Tail(cell))

\* a destructured column: undefined when the line has fewer fields, and
\* undefined and '' are both falsy in every test made of it
Col(cols, k) == IF k <= Len(cols) THEN cols[k] ELSE <<>>

DigitValue ==
    ("0" :> 0) @@ ("1" :> 1) @@ ("2" :> 2) @@ ("3" :> 3) @@ ("4" :> 4) @@
    ("5" :> 5) @@ ("6" :> 6) @@ ("7" :> 7) @@ ("8" :> 8) @@ ("9" :> 9)

Digits == DOMAIN DigitValue

\* the length of the longest prefix of s made of digits
RECURSIVE DigitPrefix(_)
DigitPrefix(s) ==
    IF s /= <<>> /\ Head(s) \in Digits THEN 1 + DigitPrefix(Tail(s)) ELSE 0

\* the number a sequence of digits reads as
RECURSIVE NumberOf(_)
NumberOf(ds) ==
    IF ds = <<>> THEN 0
    ELSE 10 * NumberOf(SubSeq(ds, 1, Len(ds) - 1)) + DigitValue[ds[Len(ds)]]

\* parseFloat of a string of digits and dots: nan when no digit leads it or
\* follows its leading dot; int is the integer part, frac the digits after
\* the first dot
parseFloat(s) ==
    LET n == DigitPrefix(s)
        rest == SubSeq(s, n + 1, Len(s))
        m == IF rest /= <<>> /\ Head(rest) = "." THEN DigitPrefix(Tail(rest)) ELSE 0
    IN  [nan |-> n + m = 0,
         int |-> NumberOf(SubSeq(s, 1, n)),
         frac |-> SubSeq(s, n + 2, n + 1 + m)]

\* the digits after the dot without their trailing zeros, which carry no value
RECURSIVE TrimZeros(_)
TrimZeros(ds) ==
    IF ds /= <<>> /\ ds[Len(ds)] = "0" THEN TrimZeros(SubSeq(ds, 1, Len(ds) - 1)) ELSE ds

\* a decimal number: its integer part and the digits after the dot
Decimal(n, ds) == [int |-> n, frac |-> TrimZeros(ds)]

\* parseFloat(String(attendance || '100').replace(/[^0-9.]/g, '')) || 100:
\* NaN and 0 are the falsy numbers
cleanAttendance(attendance) ==
    LET token == IF attendance = <<>> THEN <<"1", "0", "0">> ELSE attendance
        f == parseFloat(SelectSeq(token, LAMBDA c : c \in Digits \cup {"."}))
    IN  IF f.nan \/ Decimal(f.int, f.frac) = Decimal(0, <<>>)
           THEN Decimal(DefaultAttendance, <<>>) ELSE Decimal(f.int, f.frac)

\* slip: the filter lets the sign through, replace(/[^0-9-]/g, '')
cleanLessonsSigned(lessonsMissed) ==
    LET token == IF lessonsMissed = <<>> THEN <<"0">> ELSE lessonsMissed
        kept == SelectSeq(token, LAMBDA c : c \in Digits \cup {"-"})
    IN  IF kept /= <<>> /\ Head(kept) = "-"
           THEN 0 - NumberOf(SubSeq(kept, 2, 1 + DigitPrefix(Tail(kept))))
           ELSE NumberOf(SubSeq(kept, 1, DigitPrefix(kept)))

\* parseInt(String(lessonsMissed || '0').replace(/[^0-9]/g, '')) || 0
cleanLessons(lessonsMissed) ==
    LET token == IF lessonsMissed = <<>> THEN <<"0">> ELSE lessonsMissed
    IN  NumberOf(SelectSeq(token, LAMBDA c : c \in Digits))

\* .replace(/""/g, '"'): each pair of quotes, taken left to right, becomes one
RECURSIVE ReplaceDoubled(_)
ReplaceDoubled(s) ==
    IF Len(s) < 2 THEN s
    ELSE IF s[1] = Quote /\ s[2] = Quote
            THEN <<Quote>> \o ReplaceDoubled(SubSeq(s, 3, Len(s)))
            ELSE <<s[1]>> \o ReplaceDoubled(Tail(s))

\* jsonStr: the outer pair of quotes sliced off when the column starts and
\* ends with a quote, then the doubled quotes replaced
JsonStr(col) ==
    IF col[1] = Quote /\ col[Len(col)] = Quote
       THEN ReplaceDoubled(SubSeq(col, 2, Len(col) - 1))
       ELSE ReplaceDoubled(col)

\* a JSON string and an object key as text
Str(s) == IF s = "" THEN <<Quote, Quote>> ELSE <<Quote, s, Quote>>
Key(k) == <<Quote, k, Quote, ":">>

\* JSON.stringify of one subject entry, of an array of them, of a core record
GradeJson(g) ==
    <<"{">> \o Key("subject") \o Str(g.subject) \o <<Comma>>
            \o Key("level") \o Str(g.level) \o <<Comma>>
            \o Key("currentMark") \o <<g.mark, Comma>>
            \o Key("trend") \o Str(g.trend) \o <<Comma>>
            \o Key("assignments") \o <<"[]}">>

CoreJson(e, t, c, p) ==
    <<"{">> \o Key("ee") \o Str(e) \o <<Comma>> \o Key("tok") \o Str(t) \o <<Comma>>
            \o Key("cas") \o Str(c) \o <<Comma>> \o Key("points") \o <<p, "}">>

\* the subject entry and the core record of the template row
TemplateGrade == [subject |-> "Math AA", level |-> "HL", mark |-> "3", trend |-> "down"]
TemplateGradesJson == <<"[">> \o GradeJson(TemplateGrade) \o <<"]">>
TemplateCoreJson == CoreJson("At Risk", "In Progress", "Behind", "1")

\* the template's subject entry with the empty string as its subject
BlankSubjectGradesJson ==
    <<"[">> \o GradeJson([TemplateGrade EXCEPT !.subject = ""]) \o <<"]">>

\* JSON.parse on the texts of the model: what each well-formed text decodes
\* to; every other text raises SyntaxError
JsonValues ==
    {[text |-> TemplateGradesJson, t |-> "array",
      v |-> <<[subject |-> "Math AA", level |-> "HL", currentMark |-> 3,
               trend |-> "down", assignments |-> <<>>]>>],
     [text |-> BlankSubjectGradesJson, t |-> "array",
      v |-> <<[subject |-> "", level |-> "HL", currentMark |-> 3,
               trend |-> "down", assignments |-> <<>>]>>],
     [text |-> TemplateCoreJson, t |-> "object",
      v |-> Core("At Risk", "In Progress", "Behind", 1)],
     [text |-> <<"[]">>, t |-> "array", v |-> <<>>],
     [text |-> <<"[null]">>, t |-> "array", v |-> <<JsonNull>>],
     [text |-> <<"7">>, t |-> "number", v |-> 7]}

JSONparse(text) ==
    IF \E e \in JsonValues : e.text = text
       THEN LET e == CHOOSE e \in JsonValues : e.text = text
            IN  [ok |-> TRUE, t |-> e.t, v |-> e.v]
       ELSE [ok |-> FALSE, t |-> "SyntaxError", v |-> <<>>]

\* gradesJson && gradesJson !== '""'
HasJson(col) == col /= <<>> /\ col /= <<Quote, Quote>>

\* a value that is no object read as core: every field of it is undefined
CoreOf(parsed) == IF parsed.t = "object" THEN parsed.v ELSE Core("", "", "", 0)

\* slip: parsedCore starts without the baseline statuses
DecodeEmbeddedBlankCore(gradesJson, coreJson) ==
    LET initialGrades == [ok |-> TRUE, t |-> "array", v |-> <<>>]
        initialCore == [ok |-> TRUE, t |-> "object", v |-> Core("", "", "", 0)]
        g == IF HasJson(gradesJson) THEN JSONparse(JsonStr(gradesJson)) ELSE initialGrades
        c == IF HasJson(coreJson) THEN JSONparse(JsonStr(coreJson)) ELSE initialCore
    IN  IF ~g.ok THEN [parsedGrades |-> initialGrades, parsedCore |-> initialCore]
        ELSE IF ~c.ok THEN [parsedGrades |-> g, parsedCore |-> initialCore]
        ELSE [parsedGrades |-> g, parsedCore |-> c]

\* the try block around both decodes: parsedGrades and parsedCore keep their
\* initial values from the first JSON.parse that throws on
DecodeEmbedded(gradesJson, coreJson) ==
    LET initialGrades == [ok |-> TRUE, t |-> "array", v |-> <<>>]
        initialCore == [ok |-> TRUE, t |-> "object", v |-> BaselineCore]
        g == IF HasJson(gradesJson) THEN JSONparse(JsonStr(gradesJson)) ELSE initialGrades
        c == IF HasJson(coreJson) THEN JSONparse(JsonStr(coreJson)) ELSE initialCore
    IN  IF ~g.ok THEN [parsedGrades |-> initialGrades, parsedCore |-> initialCore]
        ELSE IF ~c.ok THEN [parsedGrades |-> g, parsedCore |-> initialCore]
        ELSE [parsedGrades |-> g, parsedCore |-> c]

\* one line from parseCSVRow to the values the Student literal is built from
DecodeRow(row) ==
    LET cols == parseCSVRow(row)
        d == DecodeEmbedded(Col(cols, 6), Col(cols, 7))
    IN  Line(Len(cols), TextOf(Col(cols, 1)), TextOf(Col(cols, 2)), TextOf(Col(cols, 3)),
             cleanAttendance(Col(cols, 4)).int, cleanLessons(Col(cols, 5)),
             IF d.parsedGrades.t = "array" THEN d.parsedGrades.v ELSE <<>>,
             CoreOf(d.parsedCore))

\* the non-blank lines of the file text, decoded
DecodeFile(fileContent) ==
    LET rows == NonBlankRows(fileContent)
    IN  [k \in 1..Len(rows) |-> DecodeRow(rows[k])]

----------------------------------------------------------------------------
(* App: state and handlers *)

FnIdle ==
    /\ fnRow = HeaderLine
    /\ fnWeights = DEFAULT_WEIGHTS
    /\ fnDone = FALSE
    /\ fnOut = [student |-> BuildStudent(HeaderLine, "", StartDate), risk |-> 0]

RowIdle ==
    /\ rowText = <<>>
    /\ rowDone = FALSE
    /\ rowOut = <<>>

IngIdle ==
    /\ ingText = <<>>
    /\ ingDone = FALSE
    /\ ingOut = <<>>

TokIdle ==
    /\ tokText = <<>>
    /\ tokDone = FALSE
    /\ tokOut = [attendance |-> cleanAttendance(<<>>), lessons |-> cleanLessons(<<>>)]

\* useState<Student | null>(null)
NoSelection == [null |-> TRUE]

OtherInit ==
    [students |-> MOCK_STUDENTS, weights |-> DEFAULT_WEIGHTS,
     effectPending |-> TRUE, mounted |-> FALSE]

Init ==
    /\ students = MOCK_STUDENTS
    /\ weights = DEFAULT_WEIGHTS
    /\ effectPending = TRUE          \* the effect runs once after mount
    /\ reads = <<>>
    /\ now = StartDate
    /\ uploads = 0
    /\ lastOp = "mount"
    /\ mounted = FALSE
    /\ other = OtherInit
    /\ FnIdle
    /\ RowIdle
    /\ IngIdle
    /\ TokIdle
    /\ selectedStudent = NoSelection

\* SettingsPanel.handleChange -> setWeights: a new object, so the effect reruns
SetWeights(key, val) ==
    /\ weights' = [weights EXCEPT ![key] = val]
    /\ effectPending' = TRUE
    /\ UNCHANGED <<students, reads, now, uploads, lastOp, mounted, other, selectedStudent, pureVars>>

\* useEffect(() => setStudents(prev => prev.map(...)), [weights])
RunEffect ==
    /\ effectPending
    /\ students' = Rescore(students, weights)
    /\ effectPending' = FALSE
    /\ lastOp' = "rescore"
    /\ mounted' = TRUE
    /\ UNCHANGED <<weights, reads, now, uploads, other, selectedStudent, pureVars>>

\* handleFileUpload: reader.onload closes over this render's weights
SelectFile(file) ==
    /\ uploads < MaxUploads
    /\ reads' = Append(reads, [file |-> file, weights |-> weights])
    /\ uploads' = uploads + 1
    /\ UNCHANGED <<students, weights, effectPending, now, lastOp, mounted, other, selectedStudent, pureVars>>

\* reader.onload for the i-th load in flight
OnLoad(i, rnd) ==
    /\ i \in 1..Len(reads)
    /\ LET parsedStudents == parseManageBacCSV(reads[i].file, rnd, now)
       IN  IF Len(parsedStudents) = 0
              THEN /\ lastOp' = "nodata"
                   /\ UNCHANGED students
              ELSE /\ students' = Merge(students, parsedStudents, reads[i].weights, now)
                   /\ lastOp' = "merge"
    /\ reads' = RemoveAt(reads, i)
    /\ UNCHANGED <<weights, effectPending, now, uploads, mounted, other, selectedStudent, pureVars>>

\* the day changes
Tick ==
    /\ now < StartDate + MaxDays
    /\ now' = now + 1
    /\ UNCHANGED <<students, weights, effectPending, reads, uploads, lastOp, mounted, other, selectedStudent, pureVars>>

Next ==
    \/ \E c \in SliderChanges : SetWeights(c[1], c[2])
    \/ RunEffect
    \/ \E f \in Files : SelectFile(f)
    \/ \E i \in 1..Len(reads) : \E rnd \in [NeedsId(reads[i].file) -> RandomIds] : OnLoad(i, rnd)
    \/ Tick

Spec == Init /\ [][Next]_vars

----------------------------------------------------------------------------
(* The scoring functions applied on their own to a record with the fields   *)
(* of a decoded line, with weights of any sign and size.                    *)

SubjectAt(cm, tr, as) == Grade("Subject", "HL", cm, cm, tr, as)

FnGrades ==
    {<<>>,
     <<SubjectAt(3, "down", <<>>)>>,
     <<SubjectAt(3, "down", <<Asg("IA", 5, 20, "IA", "Missing"),
                              Asg("IA 2", 8, 20, "IA", "Submitted")>>)>>,
     <<SubjectAt(1, "down", <<>>), SubjectAt(2, "stable", <<Asg("Quiz", 0, 0, "IA", "Late")>>)>>,
     <<SubjectAt(0, "up", <<>>), SubjectAt(8, "stable", <<>>), SubjectAt(-2, "stable", <<>>),
       SubjectAt(NotANumber, "stable", <<>>), SubjectAt(4, "stable", <<>>)>>,
     [k \in 1..7 |-> SubjectAt(7, "stable", <<>>)]}

\* JSON.parse result of the core column: points is whatever the file holds
FnCores ==
    {BaselineCore,
     Core("At Risk", "In Progress", "Behind", 1),
     Core("At Risk", "At Risk", "Behind", 1),
     Core("Submitted", "Submitted", "Complete", 3),
     Core("In Progress", "In Progress", "On Track", -5),
     Core("In Progress", "At Risk", "On Track", 50)}

FnAttendance == {0, 50, 88, 95, DefaultAttendance, 250}

FnLines ==
    {Line(7, "S1", "Jane Doe", "DP2 (Y12)", a, 0, g, c) :
        a \in FnAttendance, g \in FnGrades, c \in FnCores}

UniformWeights(v) == [k \in WeightKeys |-> v]

FnWeightSets ==
    {DEFAULT_WEIGHTS, UniformWeights(0), UniformWeights(100), UniformWeights(250),
     [DEFAULT_WEIGHTS EXCEPT !.attendanceWeight = -100],
     [UniformWeights(0) EXCEPT !.lowGradeWeight = -5]}

FnInit ==
    /\ students = MOCK_STUDENTS
    /\ weights = DEFAULT_WEIGHTS
    /\ effectPending = TRUE
    /\ reads = <<>>
    /\ now = StartDate
    /\ uploads = 0
    /\ lastOp = "mount"
    /\ mounted = FALSE
    /\ other = OtherInit
    /\ fnRow \in FnLines
    /\ fnWeights \in FnWeightSets
    /\ fnDone = FALSE
    /\ fnOut = [student |-> BuildStudent(HeaderLine, "", StartDate), risk |-> 0]
    /\ RowIdle
    /\ IngIdle
    /\ TokIdle
    /\ selectedStudent = NoSelection

\* normalize the line, then score the record with the given weights
FnApply ==
    /\ ~fnDone
    /\ LET student == BuildStudent(fnRow, "", now)
       IN  fnOut' = [student |-> student, risk |-> calculateRiskScore(student, fnWeights)]
    /\ fnDone' = TRUE
    /\ UNCHANGED <<appVars, other, fnRow, fnWeights, rowVars, ingVars, tokVars>>

FnNext == FnApply

SpecScore == FnInit /\ [][FnNext]_vars

----------------------------------------------------------------------------
(* parseCSVRow applied on its own to every line over a small alphabet.      *)

MaxRowLen == 6

RowAlphabet == {"a", Space, Comma, Quote}

RECURSIVE SeqsOfLen(_, _)
SeqsOfLen(S, n) ==
    IF n = 0 THEN {<<>>}
    ELSE {Append(s, c) : s \in SeqsOfLen(S, n - 1), c \in S}

RowTexts == UNION {SeqsOfLen(RowAlphabet, n) : n \in 0..MaxRowLen}

RowInit ==
    /\ students = MOCK_STUDENTS
    /\ weights = DEFAULT_WEIGHTS
    /\ effectPending = TRUE
    /\ reads = <<>>
    /\ now = StartDate
    /\ uploads = 0
    /\ lastOp = "mount"
    /\ mounted = FALSE
    /\ other = OtherInit
    /\ FnIdle
    /\ rowText \in RowTexts
    /\ rowDone = FALSE
    /\ rowOut = <<>>
    /\ IngIdle
    /\ TokIdle
    /\ selectedStudent = NoSelection

RowApply ==
    /\ ~rowDone
    /\ rowOut' = parseCSVRow(rowText)
    /\ rowDone' = TRUE
    /\ UNCHANGED <<appVars, other, fnVars, rowText, ingVars, tokVars>>

RowNext == RowApply

SpecRow == RowInit /\ [][RowNext]_vars

----------------------------------------------------------------------------
(* The decoding of the two numeric columns applied on its own to every      *)
(* token over a small alphabet: a digit, zero, the dot, a sign, a letter.   *)

MaxTokenLen == 4

TokenAlphabet == {"0", "7", ".", "-", "a"}

TokenTexts == UNION {SeqsOfLen(TokenAlphabet, n) : n \in 0..MaxTokenLen}

TokInit ==
    /\ students = MOCK_STUDENTS
    /\ weights = DEFAULT_WEIGHTS
    /\ effectPending = TRUE
    /\ reads = <<>>
    /\ now = StartDate
    /\ uploads = 0
    /\ lastOp = "mount"
    /\ mounted = FALSE
    /\ other = OtherInit
    /\ FnIdle
    /\ RowIdle
    /\ IngIdle
    /\ tokText \in TokenTexts
    /\ tokDone = FALSE
    /\ tokOut = [attendance |-> cleanAttendance(<<>>), lessons |-> cleanLessons(<<>>)]
    /\ selectedStudent = NoSelection

\* const cleanAttendance = ...; const cleanLessons = ...
TokApply ==
    /\ ~tokDone
    /\ tokOut' = [attendance |-> cleanAttendance(tokText), lessons |-> cleanLessons(tokText)]
    /\ tokDone' = TRUE
    /\ UNCHANGED <<appVars, other, fnVars, rowVars, ingVars, tokText>>

TokNext == TokApply

SpecToken == TokInit /\ [][TokNext]_vars

----------------------------------------------------------------------------
(* reader.onload followed from the text of the file: parseManageBacCSV on   *)
(* the text, then the merge into the roster.                                *)

\* s.replace(/"/g, '""')
RECURSIVE DoubleQuotes(_)
DoubleQuotes(s) ==
    IF s = <<>> THEN <<>>
    ELSE (IF Head(s) = Quote THEN <<Quote, Quote>> ELSE <<Head(s)>>) \o DoubleQuotes(Tail(s))

\* `"${sampleGrades}"`: a column as downloadTemplate writes it
CsvQuoted(json) == <<Quote>> \o DoubleQuotes(json) \o <<Quote>>

RECURSIVE Join(_, _)
Join(parts, sep) ==
    IF parts = <<>> THEN <<>>
    ELSE IF Len(parts) = 1 THEN parts[1]
    ELSE parts[1] \o <<sep>> \o Join(Tail(parts), sep)

\* the header line of the template
HeaderText ==
    Join(<< <<"id">>, <<"name">>, <<"yearGroup">>, <<"attendance">>,
            <<"lessonsMissed">>, <<"grades">>, <<"core">> >>, Comma)

\* a text that is no JSON
MalformedJson == <<"{bad">>

IdCells == {<<"S1">>, <<"2024001">>, <<>>}

GradesCells ==
    {<<>>, CsvQuoted(TemplateGradesJson), CsvQuoted(BlankSubjectGradesJson),
     MalformedJson, <<"7">>, <<"[null]">>, <<"[]">>}

CoreCells == {<<>>, CsvQuoted(TemplateCoreJson), MalformedJson}

\* a data line: identity, name, cohort, "88%", "24" and the two embedded columns
DataRow(id, grades, core) ==
    Join(<<id, <<"Jane", Space, "Doe">>, <<"DP2">>, <<"8", "8", "%">>, <<"2", "4">>,
           grades, core>>, Comma)

DataRows == {DataRow(i, g, c) : i \in IdCells, g \in GradesCells, c \in CoreCells}

\* a line whose embedded columns are empty
PlainRow == Join(<< <<"S2">>, <<"John", Space, "Roe">>, <<"DP1">>, <<"9", "1">> >>, Comma)

\* the files read: without data lines, and every data line on its own, after
\* a blank line, after a line of one field, and before another line
FileTexts ==
    {<<>>,
     <<Space, Newline, CarriageReturn, Newline>>,
     HeaderText,
     HeaderText \o <<Newline, Space, CarriageReturn, Newline>>}
    \cup {HeaderText \o <<Newline>> \o r : r \in DataRows}
    \cup {HeaderText \o <<CarriageReturn, Newline, CarriageReturn, Newline>> \o r
             \o <<CarriageReturn, Newline>> : r \in DataRows}
    \cup {HeaderText \o <<Newline, "garbage", Newline>> \o r : r \in DataRows}
    \cup {HeaderText \o <<Newline>> \o r \o <<Newline>> \o PlainRow : r \in DataRows}

IngInit ==
    /\ students = MOCK_STUDENTS
    /\ weights = DEFAULT_WEIGHTS
    /\ effectPending = TRUE
    /\ reads = <<>>
    /\ now = StartDate
    /\ uploads = 0
    /\ lastOp = "mount"
    /\ mounted = FALSE
    /\ other = OtherInit
    /\ FnIdle
    /\ RowIdle
    /\ ingText \in FileTexts
    /\ ingDone = FALSE
    /\ ingOut = <<>>
    /\ TokIdle
    /\ selectedStudent = NoSelection

\* reader.onload: text = e.target.result, parse, then alert or merge
OnLoadText(rnd) ==
    /\ ~ingDone
    /\ LET parsedStudents == parseManageBacCSV(DecodeFile(ingText), rnd, now)
       IN  /\ ingOut' = parsedStudents
           /\ IF Len(parsedStudents) = 0
                 THEN /\ lastOp' = "nodata"
                      /\ UNCHANGED students
                 ELSE /\ students' = Merge(students, parsedStudents, weights, now)
                      /\ lastOp' = "merge"
    /\ ingDone' = TRUE
    /\ UNCHANGED <<weights, effectPending, reads, now, uploads, mounted, other,
                   selectedStudent, fnVars, rowVars, ingText, tokVars>>

IngNext == \E rnd \in [NeedsId(DecodeFile(ingText)) -> RandomIds] : OnLoadText(rnd)

SpecIngest == IngInit /\ [][IngNext]_vars

----------------------------------------------------------------------------
(* Two runs of App fed the same batches in the same order, each with its    *)
(* own sequence of weight changes.  The first run is the App state above,   *)
(* the second is the record other.  A batch is merged in both runs in one   *)
(* step, each run scoring it with its own weights.                          *)

\* slider positions of the second run
OtherSliderChanges == {<<"coreRiskWeight", 0>>}

OtherSetWeights(key, val) ==
    /\ other' = [other EXCEPT !.weights = [other.weights EXCEPT ![key] = val],
                              !.effectPending = TRUE]
    /\ UNCHANGED <<appVars, pureVars>>

OtherRunEffect ==
    /\ other.effectPending
    /\ other' = [other EXCEPT !.students = Rescore(other.students, other.weights),
                              !.effectPending = FALSE,
                              !.mounted = TRUE]
    /\ UNCHANGED <<appVars, pureVars>>

\* handleFileUpload and its onload in both runs on the same parsed batch
PairIngest(file, rnd) ==
    /\ uploads < MaxUploads
    /\ uploads' = uploads + 1
    /\ LET parsedStudents == parseManageBacCSV(file, rnd, now)
       IN  IF Len(parsedStudents) = 0
              THEN /\ lastOp' = "nodata"
                   /\ UNCHANGED <<students, other>>
              ELSE /\ students' = Merge(students, parsedStudents, weights, now)
                   /\ other' = [other EXCEPT !.students =
                                   Merge(other.students, parsedStudents, other.weights, now)]
                   /\ lastOp' = "merge"
    /\ UNCHANGED <<weights, effectPending, reads, now, mounted, selectedStudent, pureVars>>

PairNext ==
    \/ \E c \in SliderChanges : SetWeights(c[1], c[2])
    \/ RunEffect
    \/ \E c \in OtherSliderChanges : OtherSetWeights(c[1], c[2])
    \/ OtherRunEffect
    \/ \E f \in Files : \E rnd \in [NeedsId(f) -> RandomIds] : PairIngest(f, rnd)

SpecPair == Init /\ [][PairNext]_vars

----------------------------------------------------------------------------
(* App with its detail panel: a row of the table is clicked, the panel is   *)
(* closed, while weights change and files are read.                         *)

\* the row's onClick: the panel keeps the record object of this render; the
\* table is clicked once rendered, after the mount pass of the effect
handleSelectStudent(j) ==
    /\ mounted
    /\ j \in 1..Len(students)
    /\ selectedStudent' = students[j]
    /\ UNCHANGED <<students, weights, effectPending, reads, now, uploads, lastOp, mounted,
                   other, pureVars>>

\* Escape, or one of the panel's close buttons
CloseProfile ==
    /\ selectedStudent /= NoSelection
    /\ selectedStudent' = NoSelection
    /\ UNCHANGED <<students, weights, effectPending, reads, now, uploads, lastOp, mounted,
                   other, pureVars>>

PanelFiles == {<<HeaderLine>>, ExistingFile, NewFile}

PanelNext ==
    \/ \E c \in SliderChanges : SetWeights(c[1], c[2])
    \/ RunEffect
    \/ \E f \in PanelFiles : SelectFile(f)
    \/ \E i \in 1..Len(reads) : OnLoad(i, <<>>)
    \/ \E j \in 1..Len(students) : handleSelectStudent(j)
    \/ CloseProfile

SpecPanel == Init /\ [][PanelNext]_vars

----------------------------------------------------------------------------
(* Two runs of App given each batch in two orders: the second run merges a  *)
(* permutation of the records the first run merges, with the same weights   *)
(* and on the same day.                                                     *)

\* three identities: one of the sample roster and two new ones
ThreeFile ==
    <<HeaderLine, RiskyLine("S1", "Jane Doe"), CleanLine("2024001", "Alex J."),
      RiskyLine("S2", "John Roe")>>

PermFiles == {<<HeaderLine>>, ExistingFile, NewFile, MixedFile, ThreeFile, DuplicateFile}

\* the orders n records can come in
Perms(n) == {f \in [1..n -> 1..n] : \A a, b \in 1..n : a /= b => f[a] /= f[b]}

Permuted(parsed, f) == [k \in 1..Len(parsed) |-> parsed[f[k]]]

\* the effect's pass in both runs
PermRunEffect ==
    /\ effectPending
    /\ students' = Rescore(students, weights)
    /\ other' = [other EXCEPT !.students = Rescore(other.students, weights)]
    /\ effectPending' = FALSE
    /\ lastOp' = "rescore"
    /\ mounted' = TRUE
    /\ UNCHANGED <<weights, reads, now, uploads, selectedStudent, pureVars>>

\* reader.onload in both runs: the second run's batch is in the order f
PermOnLoad(i, f) ==
    /\ i \in 1..Len(reads)
    /\ LET parsedStudents == parseManageBacCSV(reads[i].file, <<>>, now)
       IN  IF Len(parsedStudents) = 0
              THEN /\ lastOp' = "nodata"
                   /\ UNCHANGED <<students, other>>
              ELSE /\ students' = Merge(students, parsedStudents, reads[i].weights, now)
                   /\ other' = [other EXCEPT !.students =
                                   Merge(other.students, Permuted(parsedStudents, f),
                                         reads[i].weights, now)]
                   /\ lastOp' = "merge"
    /\ reads' = RemoveAt(reads, i)
    /\ UNCHANGED <<weights, effectPending, now, uploads, mounted, selectedStudent, pureVars>>

PermNext ==
    \/ \E c \in SliderChanges : SetWeights(c[1], c[2])
    \/ PermRunEffect
    \/ \E f \in PermFiles : SelectFile(f)
    \/ \E i \in 1..Len(reads) :
          \E f \in Perms(Len(parseManageBacCSV(reads[i].file, <<>>, now))) : PermOnLoad(i, f)
    \/ Tick

SpecPerm == Init /\ [][PermNext]_vars

----------------------------------------------------------------------------
(* Properties *)

Ids(roster) == {roster[i].id : i \in 1..Len(roster)}

IndexOf(roster, id) == CHOOSE k \in 1..Len(roster) : roster[k].id = id

WithoutHistory(s) == [s EXCEPT !.historicalRiskScores = <<>>]

\* the step is reader.onload of the i-th load in flight
IsOnLoad(i) == i \in 1..Len(reads) /\ reads' = RemoveAt(reads, i)

\* the step is the re-scoring pass of the effect
IsRescore == effectPending /\ ~effectPending'

\* the records reader.onload of the i-th load parses (no identity synthesized)
ParsedOf(i) == parseManageBacCSV(reads[i].file, <<>>, now)

\* C1: no two roster entries have the same identity, after any sequence of
\* merges (batches repeating an identity included) and re-scoring passes.
C1_UniqueIdentity ==
    \A i, j \in 1..Len(students) : i /= j => students[i].id /= students[j].id

\* one file only was ingested, and it held the new identity S1 more than once
C1_Witness ==
    /\ uploads = 1 /\ reads = <<>> /\ lastOp = "merge"
    /\ \E i \in 1..Len(students) :
          students[i].id = "S1" /\ Len(students[i].historicalRiskScores) >= 2

\* number of records of a parsed batch that carry the identity id
CountId(parsed, id) == Cardinality({k \in 1..Len(parsed) : parsed[k].id = id})

\* h2 is h with k entries appended and cut to the newest HistoryWindow, the
\* last one being the entry for the score the record s2 now has
HistoryExtended(h, h2, k, s2) ==
    /\ Len(h2) = Min(HistoryWindow, Len(h) + k)
    /\ \A m \in 1..(Len(h2) - k) : h2[m] = h[Len(h) - (Len(h2) - k) + m]
    /\ h2[Len(h2)] = Hist(now, s2.riskScore)

\* C2: every entry's historicalScores has at most 10 entries in every
\* reachable state; a merge appends one entry per record of the batch that
\* carries the entry's identity, keeps the newest 10 with the newest append
\* last and drops only the oldest; no other step changes a history.
C2_HistoryBounded ==
    /\ [](\A j \in 1..Len(students) :
             Len(students[j].historicalRiskScores) <= HistoryWindow)
    /\ [][\A j \in 1..Len(students) :
            LET h == students[j].historicalRiskScores
                h2 == students'[j].historicalRiskScores
            IN  /\ h2 /= h => \E i \in 1..Len(reads) : IsOnLoad(i)
                /\ \A i \in 1..Len(reads) :
                      IsOnLoad(i)
                        => \E rnd \in [NeedsId(reads[i].file) -> RandomIds] :
                              LET k == CountId(parseManageBacCSV(reads[i].file, rnd, now),
                                               students[j].id)
                              IN  IF k = 0 THEN h2 = h
                                  ELSE HistoryExtended(h, h2, k, students'[j])]_vars

\* a history is full and its oldest sample entry has been dropped
C2_Witness ==
    /\ lastOp = "merge"
    /\ students[1].id = "2024001"
    /\ Len(students[1].historicalRiskScores) = HistoryWindow
    /\ students[1].historicalRiskScores[1] /= MOCK_STUDENTS[1].historicalRiskScores[1]
    /\ students[1].historicalRiskScores[HistoryWindow] = Hist(now, students[1].riskScore)

\* C3: merging a batch of one record whose identity is in the roster keeps the
\* roster size, replaces every field but historicalScores by the incoming
\* record's (scores computed from it with the current weights) and sets
\* historicalScores to the last 10 of the previous history followed by one
\* entry scored computeRiskScore(incoming, current weights).
C3_MergeExisting ==
    [][\A i \in 1..Len(reads) :
          (/\ IsOnLoad(i)
           /\ NeedsId(reads[i].file) = {}
           /\ Len(ParsedOf(i)) = 1
           /\ ParsedOf(i)[1].id \in Ids(students))
          => LET incoming == ParsedOf(i)[1]
                 k == IndexOf(students, incoming.id)
                 score == calculateRiskScore(incoming, weights)
                 grown == Append(students[k].historicalRiskScores, Hist(now, score))
             IN  /\ Len(students') = Len(students)
                 /\ WithoutHistory(students'[k]) =
                       WithoutHistory([incoming EXCEPT
                           !.riskScore = score,
                           !.totalPoints = calculateTotalPoints(incoming)])
                 /\ students'[k].historicalRiskScores =
                       SubSeq(grown, Max(1, Len(grown) - HistoryWindow + 1), Len(grown))
      ]_vars

\* C4: merging a batch of one record whose identity is absent grows the
\* roster by one: the record is appended with riskScore computed with the
\* current weights, academicPoints computed from it and the single zero-score
\* history entry it arrived with.
C4_MergeNew ==
    [][\A i \in 1..Len(reads) :
          (/\ IsOnLoad(i)
           /\ NeedsId(reads[i].file) = {}
           /\ Len(ParsedOf(i)) = 1
           /\ ParsedOf(i)[1].id \notin Ids(students))
          => LET incoming == ParsedOf(i)[1]
             IN  /\ Len(students') = Len(students) + 1
                 /\ students'[Len(students')] =
                       [incoming EXCEPT
                           !.riskScore = calculateRiskScore(incoming, weights),
                           !.totalPoints = calculateTotalPoints(incoming),
                           !.historicalRiskScores = <<Hist(now, 0)>>]
      ]_vars

\* C5: once the mount pass and every pending effect have run, every entry's
\* riskScore is computeRiskScore(entry, active weights), whatever the
\* interleaving of weight changes, file selections and read completions.
C5_ScoreFollowsWeights ==
    (mounted /\ ~effectPending)
        => \A i \in 1..Len(students) :
              students[i].riskScore = calculateRiskScore(students[i], weights)

\* C6: computeRiskScore is an integer in [0,100] for every record and every
\* weight configuration, weights below 0 or above 1 included.
C6_RiskScoreInRange == fnDone => fnOut.risk \in 0..MaxRiskScore

\* C7: computeAcademicPoints is in [0,45] for every record the normalizer
\* builds, whatever marks and corePoints its columns decode to.
C7_AcademicPointsInRange == fnDone => fnOut.student.totalPoints \in 0..MaxTotalPoints

\* C8: two runs fed the same batches in the same order under different
\* sequences of weight changes agree on every entry's academicPoints once
\* both mount passes have run, and a weight-change pass leaves every entry's
\* academicPoints as it was.
C8_WeightIndependence ==
    /\ []((mounted /\ other.mounted)
            => /\ Len(students) = Len(other.students)
               /\ \A i \in 1..Len(students) :
                     /\ students[i].id = other.students[i].id
                     /\ students[i].totalPoints = other.students[i].totalPoints)
    /\ [][/\ (mounted /\ IsRescore)
              => \A i \in 1..Len(students) :
                    students'[i].totalPoints = students[i].totalPoints
          /\ (other.mounted /\ other.effectPending /\ ~other.effectPending')
              => \A i \in 1..Len(other.students) :
                    other.students'[i].totalPoints = other.students[i].totalPoints]_vars

\* both runs took a batch with a new identity and settled under different
\* weights: their risk scores differ
C8_Witness ==
    /\ mounted /\ other.mounted /\ ~effectPending /\ ~other.effectPending
    /\ weights /= other.weights
    /\ Len(students) > Len(MOCK_STUDENTS)
    /\ \E i \in 1..Len(students) : students[i].riskScore /= other.students[i].riskScore

\* C9: a re-scoring pass changes nothing but riskScore and academicPoints:
\* roster size, order, identities, input fields and historicalScores stay.
C9_RescoreFrame ==
    [][IsRescore
         => /\ Len(students') = Len(students)
            /\ \A i \in 1..Len(students) :
                  students'[i] = [students[i] EXCEPT
                                     !.riskScore = students'[i].riskScore,
                                     !.totalPoints = students'[i].totalPoints]]_vars

\* a pass under a changed weight has just given the first entry a new score
C9_Witness ==
    /\ lastOp = "rescore" /\ ~effectPending
    /\ weights /= DEFAULT_WEIGHTS
    /\ students[1].riskScore /= MOCK_STUDENTS[1].riskScore
    /\ students[1].riskScore = calculateRiskScore(students[1], weights)
    /\ students[1].historicalRiskScores = MOCK_STUDENTS[1].historicalRiskScores

\* C10: an identity present in the roster stays in it in every later state.
C10_IdentitiesKept == [][Ids(students) \subseteq Ids(students')]_vars

\* a batch without the sample identities was merged, then an unusable file read
C10_Witness ==
    /\ uploads = MaxUploads /\ reads = <<>> /\ lastOp = "nodata"
    /\ Len(students) > Len(MOCK_STUDENTS)
    /\ Ids(MOCK_STUDENTS) \subseteq Ids(students)

----------------------------------------------------------------------------
(* Properties of parseCSVRow *)

\* number of quote characters of row before position j
QuotesBefore(row, j) == Cardinality({k \in 1..(j - 1) : row[k] = Quote})

QuoteCount(s) == QuotesBefore(s, Len(s) + 1)

\* the commas of row that lie outside quotes
OutsideCommas(row) ==
    {j \in 1..Len(row) : row[j] = Comma /\ QuotesBefore(row, j) % 2 = 0}

\* s without its leading and trailing whitespace
Stripped(s) ==
    LET inked == {k \in 1..Len(s) : s[k] \notin Whitespace}
    IN  IF inked = {} THEN <<>>
        ELSE SubSeq(s, CHOOSE k \in inked : \A m \in inked : k <= m,
                       CHOOSE k \in inked : \A m \in inked : k >= m)

\* positions a < b of row enclose a field in double quotes that holds a comma
QuotedFieldWithComma(row, a, b) ==
    /\ a < b /\ row[a] = Quote /\ row[b] = Quote
    /\ a = 1 \/ row[a - 1] = Comma
    /\ b = Len(row) \/ row[b + 1] = Comma
    /\ QuotesBefore(row, a) % 2 = 0
    /\ \A k \in (a + 1)..(b - 1) : row[k] /= Quote
    /\ \E k \in (a + 1)..(b - 1) : row[k] = Comma

\* C11: a field enclosed in double quotes that contains commas is returned
\* as one element with its commas kept, and the commas inside the quotes add
\* no field: the fields are one more than the commas outside quotes.
C11_QuotedCommaKept ==
    rowDone =>
        \A a, b \in 1..Len(rowText) :
            QuotedFieldWithComma(rowText, a, b)
              => /\ Len(rowOut) = 1 + Cardinality(OutsideCommas(rowText))
                 /\ rowOut[1 + Cardinality({j \in OutsideCommas(rowText) : j < a})]
                       = Stripped(SubSeq(rowText, a + 1, b - 1))

\* the line  ,"a,a"  was split into an empty field and the field  a,a
C11_Witness ==
    /\ rowDone
    /\ rowText = <<Comma, Quote, "a", Comma, "a", Quote>>
    /\ QuotedFieldWithComma(rowText, 2, 6)
    /\ rowOut = << <<>>, <<"a", Comma, "a">> >>

\* the positions where two consecutive quotes start inside a quoted field
EscapePositions(row) ==
    {j \in 1..(Len(row) - 1) :
        row[j] = Quote /\ row[j + 1] = Quote /\ QuotesBefore(row, j) % 2 = 1}

\* C12: where two consecutive quotes occur inside a quoted field, the scan
\* appends exactly one quote to the field, stays inside the quotes, ends no
\* field and moves past both; the returned fields hold one quote per pair.
C12_DoubledQuoteLiteral ==
    rowDone =>
        LET tr == ScanTrace(rowText, ScanStart)
        IN  /\ \A j \in EscapePositions(rowText) :
                  \E k \in 1..(Len(tr) - 1) :
                      /\ tr[k].i = j /\ tr[k].inQuotes
                      /\ tr[k + 1] = [tr[k] EXCEPT !.current = Append(@, Quote),
                                                   !.i = j + 2]
            /\ SumSeq([k \in 1..Len(rowOut) |-> QuoteCount(rowOut[k])])
                  = Cardinality(EscapePositions(rowText))

\* the line  "a""a"  was returned as the one field  a"a
C12_Witness ==
    /\ rowDone
    /\ rowText = <<Quote, "a", Quote, Quote, "a", Quote>>
    /\ EscapePositions(rowText) = {3}
    /\ rowOut = << <<"a", Quote, "a">> >>

\* C13: the fields returned are exactly one more than the commas outside
\* quotes (one field for a line without comma, an empty last field after a
\* trailing comma), and no field starts or ends with whitespace.
C13_FieldCount ==
    rowDone =>
        /\ Len(rowOut) = 1 + Cardinality(OutsideCommas(rowText))
        /\ \A k \in 1..Len(rowOut) :
              rowOut[k] /= <<>>
                => /\ rowOut[k][1] \notin Whitespace
                   /\ rowOut[k][Len(rowOut[k])] \notin Whitespace

\* a padded field followed by a trailing comma: the field a and an empty field
C13_Witness ==
    /\ rowDone
    /\ rowText = <<Space, "a", Space, Comma>>
    /\ rowOut = << <<"a">>, <<>> >>

\* every quote of rest is one of an adjacent pair
EscapesOnly(rest) ==
    \A k \in 1..Len(rest) :
        (rest[k] = Quote /\ QuotesBefore(rest, k) % 2 = 0)
            => (k + 1 <= Len(rest) /\ rest[k + 1] = Quote)

\* rest with each pair of quotes replaced by one quote
Unescaped(rest) ==
    SelectSeq([k \in 1..Len(rest) |->
                  IF rest[k] = Quote /\ QuotesBefore(rest, k) % 2 = 1
                     THEN "" ELSE rest[k]],
              LAMBDA c : c /= "")

\* position q holds an opening quote that is never closed
UnmatchedQuote(row, q) ==
    /\ row[q] = Quote
    /\ QuotesBefore(row, q) % 2 = 0
    /\ q = 1 \/ row[q - 1] /= Quote
    /\ EscapesOnly(SubSeq(row, q + 1, Len(row)))

\* C14: a line with an unbalanced quote is parsed without failure, and
\* everything after the unmatched opening quote, later commas included,
\* belongs to the last field returned.
C14_UnbalancedQuote ==
    (rowDone /\ QuoteCount(rowText) % 2 = 1) =>
        /\ \E q \in 1..Len(rowText) : UnmatchedQuote(rowText, q)
        /\ \A q \in 1..Len(rowText) :
              UnmatchedQuote(rowText, q)
                => LET before == ScanRow(SubSeq(rowText, 1, q - 1))
                       rest == SubSeq(rowText, q + 1, Len(rowText))
                   IN  /\ Len(rowOut) = 1 + Cardinality({j \in OutsideCommas(rowText) : j < q})
                       /\ rowOut = Append(before.result,
                                          Stripped(before.current \o Unescaped(rest)))

\* the line  a,"a,a  was split into the field a and the field  a,a
C14_Witness ==
    /\ rowDone
    /\ rowText = <<"a", Comma, Quote, "a", Comma, "a">>
    /\ UnmatchedQuote(rowText, 3)
    /\ rowOut = << <<"a">>, <<"a", Comma, "a">> >>

----------------------------------------------------------------------------
(* Properties of parseManageBacCSV on the file text *)

\* the non-blank lines after the header that split into at least 2 fields
FieldRows(text) ==
    LET rows == NonBlankRows(text)
    IN  SelectSeq(SubSeq(rows, 2, Len(rows)), LAMBDA r : Len(parseCSVRow(r)) >= 2)

\* the grades and core columns of a line, as parseCSVRow returns them
GradesCol(r) == Col(parseCSVRow(r), 6)
CoreCol(r) == Col(parseCSVRow(r), 7)

\* C15: the records returned are exactly one per non-blank line after the
\* header that splits into at least 2 fields, in the order of the lines,
\* whatever the embedded columns of any line hold (malformed JSON, a value
\* that is no sequence, a sequence with an element that is no object).
C15_OneRecordPerRow ==
    ingDone =>
        LET rows == FieldRows(ingText)
        IN  /\ Len(ingOut) = Len(rows)
            /\ \A k \in 1..Len(rows) :
                  LET cols == parseCSVRow(rows[k])
                  IN  /\ ingOut[k].name = TextOf(cols[2])
                      /\ cols[1] /= <<>> => ingOut[k].id = TextOf(cols[1])

\* no line of the text holds a sequence with a null element in its grades
NoNullEntries(text) ==
    \A k \in 1..Len(FieldRows(text)) : GradesCol(FieldRows(text)[k]) /= <<"[null]">>

C17_DecodeIsolated ==
    (ingDone /\ NoNullEntries(ingText)) =>
        LET rows == FieldRows(ingText)
        IN  /\ Len(ingOut) = Len(rows)
            /\ \A k \in 1..Len(rows) :
                  /\ (GradesCol(rows[k]) = MalformedJson /\ CoreCol(rows[k]) = TemplateCoreJson)
                        => ingOut[k].core = Core("At Risk", "In Progress", "Behind", 1)
                  /\ (CoreCol(rows[k]) = MalformedJson /\ GradesCol(rows[k]) = TemplateGradesJson)
                        => /\ Len(ingOut[k].grades) = 1
                           /\ ingOut[k].grades[1].subject = "Math AA"

\* C18: a text with fewer than two non-blank lines (empty, blank lines only,
\* a header only) parses to no record, and its onload leaves the roster as
\* it was: no entry added, no field changed, no history entry appended.
C18_NoDataNoChange ==
    [][(~ingDone /\ ingDone' /\ Len(NonBlankRows(ingText)) < 2)
          => (ingOut' = <<>> /\ students' = students)]_vars

\* a header followed by blank lines was read: no record, the roster as it was
C18_Witness ==
    /\ ingDone
    /\ ingText = HeaderText \o <<Newline, Space, CarriageReturn, Newline>>
    /\ ingOut = <<>>
    /\ lastOp = "nodata"
    /\ students = MOCK_STUDENTS

----------------------------------------------------------------------------
(* Properties of the scoring functions *)

\* the weighted contributions of a record, in hundredths
Contributions(s, w) ==
    LET subjects == 1..Len(s.grades)
        tasks(i) == 1..Len(s.grades[i].assignments)
        numeric(i) == s.grades[i].currentMark /= NotANumber
    IN  Max(0, 95 - s.attendance) * 5 * w.attendanceWeight
        + SumSeq([i \in subjects |->
              IF numeric(i) /\ 0 < s.grades[i].currentMark /\ s.grades[i].currentMark < 4
                 THEN (4 - s.grades[i].currentMark) * 15 * w.lowGradeWeight ELSE 0])
        + 10 * w.trendWeight * Cardinality({i \in subjects : s.grades[i].trend = "down"})
        + 20 * w.iaRiskWeight
             * SumSeq([i \in subjects |->
                   Cardinality({k \in tasks(i) :
                       LET a == s.grades[i].assignments[k]
                       IN  a.type = "IA" /\ a.maxScore > 0 /\ 10 * a.score < 4 * a.maxScore})])
        + 12 * w.missingAssignmentWeight
             * SumSeq([i \in subjects |->
                   Cardinality({k \in tasks(i) : s.grades[i].assignments[k].status = "Missing"})])
        + w.coreRiskWeight * ((IF s.core.ee = "At Risk" THEN 35 ELSE 0)
                              + (IF s.core.tok = "At Risk" THEN 30 ELSE 0)
                              + (IF s.core.cas = "Behind" THEN 25 ELSE 0))

\* n is an integer nearest to the value h given in hundredths
Nearest(n, h) == 100 * n - 50 <= h /\ h <= 100 * n + 50

\* the scenario record: attendance 88, one subject at mark 3 trending down,
\* extended essay at risk, service behind
IsScenario(s) ==
    /\ s.attendance = 88
    /\ s.grades = <<SubjectAt(3, "down", <<>>)>>
    /\ s.core = Core("At Risk", "In Progress", "Behind", 1)

\* C19: the risk score is the nearest integer to the sum of the weighted
\* contributions, capped at 100, for every record with attendance in 0..100
\* (0 included) and every weight configuration; the scenario record scores
\* 24 with the default weights.
C19_RiskFormula ==
    (fnDone /\ fnOut.student.attendance \in 0..100) =>
        LET sum == Contributions(fnOut.student, fnWeights)
        IN  /\ IF fnOut.risk < 100 THEN Nearest(fnOut.risk, sum)
                                   ELSE fnOut.risk = 100 /\ sum >= 100 * 100 - 50
            /\ (IsScenario(fnOut.student) /\ fnWeights = DEFAULT_WEIGHTS) => fnOut.risk = 24

\* the points a mark adds: the mark itself when it is a number in 1..7
InRangeMark(m) == IF m /= NotANumber /\ 1 <= m /\ m <= 7 THEN m ELSE 0

\* C20: academic points are min(45, corePoints + the sum of the marks that
\* lie in 1..7); a mark of 0, 8, below 0 or no number adds 0 and is not
\* clamped into the range.
C20_PointsFormula ==
    fnDone =>
        LET s == fnOut.student
        IN  s.totalPoints =
                Min(45, s.core.points
                        + SumSeq([i \in 1..Len(s.grades) |-> InRangeMark(s.grades[i].currentMark)]))

\* marks 0, 8, -2, no number and 4 with 3 core points: 7 academic points
C20_Witness ==
    /\ fnDone
    /\ Len(fnOut.student.grades) = 5
    /\ fnOut.student.grades[2].currentMark = 8
    /\ fnOut.student.grades[4].currentMark = NotANumber
    /\ fnOut.student.core.points = 3
    /\ fnOut.student.totalPoints = 7

----------------------------------------------------------------------------
(* The numeric columns *)

\* the characters of a token other than digits and the dot, removed
DigitsAndDots(token) == SelectSeq(token, LAMBDA c : c \in Digits \cup {"."})

\* the number of digits of s in a row from position from on
DigitRun(s, from) ==
    CHOOSE n \in 0..Len(s) :
        /\ from + n - 1 <= Len(s)
        /\ \A k \in from..(from + n - 1) : s[k] \in Digits
        /\ from + n > Len(s) \/ s[from + n] \notin Digits

\* the digits before and after the first dot that a number is read from
IntDigits(s) == SubSeq(s, 1, DigitRun(s, 1))
FracDigits(s) ==
    LET n == DigitRun(s, 1)
    IN  IF n < Len(s) /\ s[n + 1] = "." /\ n + 2 <= Len(s)
           THEN SubSeq(s, n + 2, n + 1 + DigitRun(s, n + 2)) ELSE <<>>

ParseYieldsNumber(s) == IntDigits(s) /= <<>> \/ FracDigits(s) /= <<>>

\* C21: for every attendance token the normalized attendance is the number
\* parsed from the token with every character other than digits and the dot
\* removed; it is the default 100 only when the token is absent or the parse
\* yields no number, so a token that parses to a number, "0" included, is kept.
C21_AttendanceKept ==
    tokDone =>
        LET kept == DigitsAndDots(tokText)
        IN  tokOut.attendance =
                IF tokText = <<>> \/ ~ParseYieldsNumber(kept)
                   THEN Decimal(DefaultAttendance, <<>>)
                   ELSE Decimal(NumberOf(IntDigits(kept)), FracDigits(kept))

\* C22: for every missed-sessions token (absent, empty, signed, fractional or
\* with letters) the normalized lessonsMissed is a non-negative integer, and
\* it is 0 when the token is absent or holds no digit.
C22_LessonsNonNegative ==
    tokDone =>
        /\ tokOut.lessons \in Nat
        /\ (\A k \in 1..Len(tokText) : tokText[k] \notin Digits) => tokOut.lessons = 0

C22_Witness ==
    /\ tokDone
    /\ tokText = <<"-", "7", ".", "a">>
    /\ tokOut.lessons = 7

\* C23: every record parseManageBacCSV returns has riskScore 0, totalPoints
\* equal to the academic points of the record, and a history of exactly one
\* entry whose score is 0 and whose date is the processing date.
C23_FreshRecord ==
    ingDone =>
        \A k \in 1..Len(ingOut) :
            LET s == ingOut[k]
            IN  /\ s.riskScore = 0
                /\ s.totalPoints =
                       Min(MaxTotalPoints, s.core.points
                           + SumSeq([i \in 1..Len(s.grades) |-> InRangeMark(s.grades[i].currentMark)]))
                /\ s.historicalRiskScores = <<[date |-> now, score |-> 0]>>

\* the template's subject entry (mark 3) and core record (1 point) were
\* decoded: 4 academic points on a record that would score above 0
C23_Witness ==
    /\ ingDone
    /\ Len(ingOut) = 2
    /\ Len(ingOut[1].grades) = 1
    /\ ingOut[1].core.points = 1
    /\ ingOut[1].totalPoints = 4
    /\ ingOut[1].riskScore = 0
    /\ calculateRiskScore(ingOut[1], DEFAULT_WEIGHTS) > 0
    /\ ingOut[1].historicalRiskScores = <<[date |-> StartDate, score |-> 0]>>

\* the forms a column holding the JSON text arrives in: wrapped in one pair
\* of quotes with every quote of the text doubled, and as it is when the
\* text has neither a comma nor a quote
Encodings(text) ==
    {CsvQuoted(text)}
    \cup (IF \A k \in 1..Len(text) : text[k] \notin {Comma, Quote} THEN {text} ELSE {})

\* C24: for every JSON value V, empty strings inside it included, a line
\* whose embedded column is the JSON text of V wrapped in one pair of quotes
\* with every inner quote doubled, as the template writes it, yields a record
\* whose decoded column is V; the same for a column that arrives unquoted.
\* (Lines with a null subject entry, and core columns read after a grades
\* column whose decode throws, are left to C15 and C17.)
C24_RoundTrip ==
    (ingDone /\ NoNullEntries(ingText)) =>
        LET rows == FieldRows(ingText)
        IN  /\ Len(ingOut) = Len(rows)
            /\ \A k \in 1..Len(rows) : \A i \in IdCells, g \in GradesCells, c \in CoreCells :
                  rows[k] = DataRow(i, g, c) =>
                      \A e \in JsonValues :
                          /\ (e.t = "array" /\ g \in Encodings(e.text))
                                => ingOut[k].grades = e.v
                          /\ (e.t = "object" /\ c \in Encodings(e.text)
                                  /\ g \in {<<>>, <<"[]">>, CsvQuoted(TemplateGradesJson)})
                                => ingOut[k].core = e.v

----------------------------------------------------------------------------
(* The merge of a batch *)

\* the last record of the batch that carries the identity
LastOf(parsed, id) ==
    parsed[CHOOSE k \in 1..Len(parsed) :
               parsed[k].id = id /\ \A m \in (k + 1)..Len(parsed) : parsed[m].id /= id]

\* the fields of a record other than its score and its history
InputFields(s) == [s EXCEPT !.riskScore = 0, !.historicalRiskScores = <<>>]

\* C25: when a batch holds several records with one identity, the roster
\* ends with a single entry for that identity whose non-history fields are
\* those of the last such record in batch order (its score computed from
\* that record), whether or not the identity was in the roster before.
C25_LastRecordWins ==
    [][\A i \in 1..Len(reads) :
          IsOnLoad(i)
            => \E rnd \in [NeedsId(reads[i].file) -> RandomIds] :
                  LET parsed == parseManageBacCSV(reads[i].file, rnd, now)
                  IN  \A id \in Ids(parsed) :
                          /\ Cardinality({j \in 1..Len(students') : students'[j].id = id}) = 1
                          /\ LET entry == students'[IndexOf(students', id)]
                                 last == LastOf(parsed, id)
                             IN  /\ InputFields(entry) = InputFields(last)
                                 /\ entry.riskScore
                                       = calculateRiskScore(last, reads[i].weights)]_vars

\* a batch of two records without id, both given the identity S1 that an
\* earlier batch had added, was merged: the entry has the second record's
\* fields and two more history entries
C25_Witness ==
    /\ lastOp = "merge" /\ reads = <<>> /\ uploads = 2
    /\ \E j \in 1..Len(students) :
          /\ students[j].id = "S1"
          /\ students[j].name = "Unknown Student"
          /\ students[j].attendance = 88
          /\ Len(students[j].historicalRiskScores) = 3

\* the two rosters hold the same entries, whatever their order
SameContent(a, b) ==
    /\ Len(a) = Len(b)
    /\ {a[k] : k \in 1..Len(a)} = {b[k] : k \in 1..Len(b)}

DistinctIds(parsed) == \A a, b \in 1..Len(parsed) : a /= b => parsed[a].id /= parsed[b].id

\* C26: for a batch whose identities are pairwise distinct, merging any
\* permutation of it into the same roster with the same weights and clock
\* gives the same roster content: the same identities, each with the same
\* fields, scores and history.
C26_PermutationIndependent ==
    [][\A i \in 1..Len(reads) :
          (IsOnLoad(i) /\ DistinctIds(ParsedOf(i)) /\ SameContent(students, other.students))
            => SameContent(students', other.students')]_vars

\* the batch of three identities was merged in two different orders: the
\* two new entries come in different orders, the content is the same
C26_Witness ==
    /\ lastOp = "merge"
    /\ Len(students) = Len(MOCK_STUDENTS) + 2
    /\ students /= other.students
    /\ SameContent(students, other.students)
    /\ \E j \in 1..Len(students) : students[j].id = "S2"

\* C27: with a clock that never goes backwards, the dates of every roster
\* entry's history are non-decreasing from first to last in every reachable
\* state, for the entries of the sample roster and for entries whose
\* identity was merged several times too.
C27_HistoryDatesOrdered ==
    \A j \in 1..Len(students) :
        LET h == students[j].historicalRiskScores
        IN  \A k \in 1..(Len(h) - 1) : h[k].date <= h[k + 1].date

\* a sample entry was merged on one day and again on the next
C27_Witness ==
    /\ now = StartDate + 1
    /\ students[1].id = "2024001"
    /\ LET h == students[1].historicalRiskScores
       IN  /\ Len(h) = 5
           /\ h[3] = MOCK_STUDENTS[1].historicalRiskScores[3]
           /\ h[4].date = StartDate
           /\ h[5].date = StartDate + 1

\* the positions in the batch where an identity absent from the roster
\* occurs for the first time
FirstNew(parsed, roster) ==
    {k \in 1..Len(parsed) :
        /\ parsed[k].id \notin Ids(roster)
        /\ \A m \in 1..(k - 1) : parsed[m].id /= parsed[k].id}

\* C28: a merge leaves every entry whose identity is not in the batch
\* unchanged in all fields, keeps every pre-existing entry at its index, and
\* appends the entries of new identities after all pre-existing ones in the
\* order of their first occurrence in the batch.
C28_MergeFrame ==
    [][\A i \in 1..Len(reads) :
          IsOnLoad(i)
            => \E rnd \in [NeedsId(reads[i].file) -> RandomIds] :
                  LET parsed == parseManageBacCSV(reads[i].file, rnd, now)
                      new == FirstNew(parsed, students)
                  IN  /\ Len(students') = Len(students) + Cardinality(new)
                      /\ \A j \in 1..Len(students) :
                            /\ students'[j].id = students[j].id
                            /\ students[j].id \notin Ids(parsed) => students'[j] = students[j]
                      /\ \A k \in new :
                            students'[Len(students) + Cardinality({m \in new : m <= k})].id
                                = parsed[k].id]_vars

\* a batch for a sample identity, then a batch of two records given new
\* identities: the sample entry was updated at its index, its neighbour is
\* as the mount pass left it, and the new entries follow in batch order
C28_Witness ==
    /\ lastOp = "merge" /\ uploads = 2 /\ reads = <<>>
    /\ Len(students) = Len(MOCK_STUDENTS) + 2
    /\ students[1].id = "2024001"
    /\ Len(students[1].historicalRiskScores) = 4
    /\ students[2] = RescoreEntry(MOCK_STUDENTS[2], DEFAULT_WEIGHTS)
    /\ students[Len(MOCK_STUDENTS) + 1].id = "S1"
    /\ students[Len(MOCK_STUDENTS) + 2].id = "S-k3x9q"

----------------------------------------------------------------------------
(* Loads in flight *)

\* the step happens while another load is in flight or a re-scoring pass is
\* pending
Overlapping(i) == IsOnLoad(i) /\ (Len(reads) >= 2 \/ effectPending)

\* the pass of the effect with loads in flight keeps the loads, the
\* identities and the histories
PassKeepsLoads ==
    (IsRescore /\ reads /= <<>>)
        => /\ reads' = reads
           /\ Len(students') = Len(students)
           /\ \A j \in 1..Len(students) :
                 /\ students'[j].id = students[j].id
                 /\ students'[j].historicalRiskScores = students[j].historicalRiskScores

\* C29 as stated: with two loads in flight, or a load completing while a
\* re-scoring pass is pending, nothing is lost: after the load's single step
\* the roster holds every identity it held and every identity of the batch,
\* and every identity matched has gained one history entry for the batch.
C29_OneEntryPerBatch ==
    [][/\ PassKeepsLoads
       /\ \A i \in 1..Len(reads) :
             Overlapping(i)
               => \E rnd \in [NeedsId(reads[i].file) -> RandomIds] :
                     LET parsed == parseManageBacCSV(reads[i].file, rnd, now)
                     IN  /\ Ids(students) \cup Ids(parsed) \subseteq Ids(students')
                         /\ \A j \in 1..Len(students) :
                               LET h == students[j].historicalRiskScores
                                   h2 == students'[j].historicalRiskScores
                               IN  IF CountId(parsed, students[j].id) = 0 THEN h2 = h
                                   ELSE HistoryExtended(h, h2, 1, students'[j])]_vars

\* C29 amended: as above, and every identity matched has gained one history
\* entry for each record of the batch that carries it (the newest 10 kept).
C29_NoLostUpdate ==
    [][/\ PassKeepsLoads
       /\ \A i \in 1..Len(reads) :
             Overlapping(i)
               => \E rnd \in [NeedsId(reads[i].file) -> RandomIds] :
                     LET parsed == parseManageBacCSV(reads[i].file, rnd, now)
                     IN  /\ Ids(students) \cup Ids(parsed) \subseteq Ids(students')
                         /\ \A j \in 1..Len(students) :
                               LET h == students[j].historicalRiskScores
                                   h2 == students'[j].historicalRiskScores
                                   k == CountId(parsed, students[j].id)
                               IN  IF k = 0 THEN h2 = h
                                   ELSE HistoryExtended(h, h2, k, students'[j])]_vars

\* the mount pass has been pending all along and a weight change is pending
\* with it; two loads have completed meanwhile: the roster holds the new
\* identity of one batch and the sample entry has one more history entry for
\* each of the two batches that carried it
C29_Witness ==
    /\ ~mounted /\ effectPending /\ weights /= DEFAULT_WEIGHTS
    /\ uploads = 2 /\ reads = <<>> /\ lastOp = "merge"
    /\ Len(students) = Len(MOCK_STUDENTS) + 1
    /\ students[Len(students)].id = "S1"
    /\ students[1].id = "2024001"
    /\ Len(students[1].historicalRiskScores)
          = Len(MOCK_STUDENTS[1].historicalRiskScores) + 2

----------------------------------------------------------------------------
(* The detail panel *)

\* what the panel renders of a record
Shown(s) ==
    [totalPoints |-> s.totalPoints, attendance |-> s.attendance,
     grades |-> s.grades, historicalRiskScores |-> s.historicalRiskScores]

\* C30: whenever a record is selected, what the panel shows of it (academic
\* points, attendance, subject entries, history) equals the current roster
\* entry with the same identity, also after a merge that updates the
\* identity or a re-scoring pass while it is selected.
C30_PanelCurrent ==
    selectedStudent /= NoSelection
        => \E j \in 1..Len(students) :
              /\ students[j].id = selectedStudent.id
              /\ Shown(students[j]) = Shown(selectedStudent)

====
